---- MODULE Spec2Model ----
(***************************************************************************)
(* Live-messaging core of the chat backend: the connection registry, the   *)
(* presence map, the message status field and the per-connection session   *)
(* handler of app/websocket.py, with the REST reads of                      *)
(* app/routers/conversations.py that touch the same state.                  *)
(***************************************************************************)
EXTENDS Integers, Sequences, FiniteSets, TLC

\* ------------------------------------------------------------------ bounds
MaxSockets == 3
MaxMsgs == 1
MaxTicks == 2
\* the status-machine specification: fewer sockets, more messages
MaxStatusSockets == 2
MaxStatusMsgs == 2
\* the message-handling specification
MaxMessageSockets == 2
MaxMessageMsgs == 2
\* the fan-out specification: broadcasts followed send by send
MaxFanOuts == 2
\* the REST specification: worker threads, sessions, and rows per table
MaxThreads == 2
MaxRestSockets == 2
MaxRestMsgs == 1
MaxRooms == 2
MaxRoomMembers == 4
MaxConvRows == 4
\* the join specification: sessions and stored messages
MaxJoinSockets == 3
MaxJoinMsgs == 2
\* the read specification: sessions and stored messages
MaxReadSockets == 2
MaxReadMsgs == 2
\* the delivery-order specification: sessions and stored messages
MaxOrderSockets == 2
MaxOrderMsgs == 3

\* ------------------------------------------------------- program constants
WS_1008_POLICY_VIOLATION == 1008
ONLINE_WINDOW == 30

Sockets == 1..MaxSockets
None == "None"
NoSock == 0

\* ------------------------------------------------ rows of the relational store
\* users: username -> row (id, is_active); "ghost" has a valid token but no row
UserRows ==
    [alice |-> [id |-> 1, is_active |-> TRUE],
     bob   |-> [id |-> 2, is_active |-> TRUE],
     carol |-> [id |-> 3, is_active |-> TRUE],
     dave  |-> [id |-> 4, is_active |-> FALSE]]

\* conversations: id -> (user1_id, user2_id)
ConvRows ==
    1 :> [user1_id |-> 1, user2_id |-> 2] @@
    2 :> [user1_id |-> 4, user2_id |-> 1]

\* rooms: id -> creator; room_members: the membership rows
RoomRows == 1 :> [creator_id |-> 1]
RoomMemberRows == {[room_id |-> 1, user_id |-> 1], [room_id |-> 1, user_id |-> 2]}
\* room ids a client may put in the URL (2 names no room)
RoomIdInputs == {1, 2}

\* the membership rows in the order of their ids
RoomMemberSeq ==
    CHOOSE q \in [1..Cardinality(RoomMemberRows) -> RoomMemberRows] :
        {q[i] : i \in DOMAIN q} = RoomMemberRows

\* the rooms, room_members and conversations tables before any REST request
SeededStore ==
    [rooms |-> RoomRows, room_members |-> RoomMemberSeq, conv_rows |-> ConvRows]

\* the worker threads that run the REST handlers, and a thread with no request
Threads == 1..MaxThreads
NoRequest == [op |-> "none", user |-> 0, room_id |-> 0, user_id |-> 0]
\* user ids a client may put in a URL or a body (5 names no user)
UserIdInputs == {1, 2, 3, 5}

\* conversation ids a client may put in the URL (3 names no conversation)
ConvIdInputs == {1, 2, 3}
\* credentials a client may present
Tokens == {"alice", "bob", "carol", "dave", "ghost", "nosub", "expired"}
\* users that pass get_current_active_user on the REST side
RestUsers == {n \in DOMAIN UserRows : UserRows[n].is_active}

\* MessageStatus
SENT == "sent"
DELIVERED == "delivered"
READ == "read"
MessageStatus == {SENT, DELIVERED, READ}

\* inbound text contents: sequences of characters
Contents == {<< >>, <<" ">>, <<" ", "h", " ">>}
\* status_update inputs; message id 0 and status "" stand for a missing
\* (falsy) field
StatusInputs == {"", "delivered", "read", "seen"}
TickSteps == {1, 29}
\* what a failed personal send raises
Exceptions == {"none", "WebSocketDisconnect", "RuntimeError"}
\* values of the type field of an inbound event (None: the field is missing)
EventTypes == {"message", "typing", "status_update", "ping", "Message", None}

VARIABLES
    active_connections,  \* manager.active_connections: conv id -> (socket -> user id)
    online_users,        \* online_users: user id -> timestamp
    messages,            \* messages table: id (index) -> row
    conversations,       \* conversations table, mutable columns: id -> row
    sess,                \* per socket: position of websocket_endpoint and its locals
    alive,               \* sockets whose transport is still open
    now,                 \* datetime.now(timezone.utc), in seconds
    ticks,               \* number of clock advances so far
    out,                 \* observable output of the last handler run
    fanout,              \* the send_to_conversation call suspended at a send
    inbox,               \* per socket, the message events its client received, in order
    store,               \* rooms, room_members and conversations tables: rows by id
    requests             \* REST requests between their queries and their commit

vars == <<active_connections, online_users, messages, conversations, sess, alive,
          now, ticks, out, conversations, fanout, inbox, store, requests>>

\* ---------------------------------------------------------------- helpers
Restrict(f, S) == [x \in S |-> f[x]]

RECURSIVE LStrip(_)
LStrip(s) == IF s # << >> /\ Head(s) = " " THEN LStrip(Tail(s)) ELSE s
RECURSIVE RStrip(_)
RStrip(s) == IF s # << >> /\ s[Len(s)] = " " THEN RStrip(SubSeq(s, 1, Len(s) - 1)) ELSE s
\* str.strip()
Strip(s) == RStrip(LStrip(s))

\* ------------------------------------------------------------- encryption
\* a Fernet token of plaintext m: the text under a tag no plaintext starts with
encrypt_message(m) == IF m = << >> THEN m ELSE <<"~">> \o m

\* decrypt_message: the plaintext of a token; text that is no token comes back
\* as it is (the except branch)
decrypt_message(e) ==
    IF e = << >> THEN e
    ELSE IF Head(e) = "~" THEN Tail(e)
    ELSE e

\* the keys a process may have been started with (ENCRYPTION_KEY); "~" is the
\* key of the process that wrote the stored tokens
Keys == {"~", "^"}

\* decrypt_message in a process whose key is key: _fernet.decrypt raises
\* InvalidToken on a token made under another key, the except branch returns
\* its argument
decrypt_with(key, e) ==
    IF e = << >> THEN e
    ELSE IF Head(e) = key THEN Tail(e)
    ELSE e

NoSession == [pc |-> "init", conv |-> 0, user |-> None]
\* close, reason: the close code sent (0: none) and its reason; sends: the send
\* attempts, in order; resp: the body of a REST response
\* the locals of a send_to_conversation call that is followed send by send;
\* this value: no such call has been made.  used, len, visited are the dict
\* iterator of the for loop (the size it started with, the entries it has
\* left, the keys it has passed); snapshot the keys present when it started;
\* detached: its bucket has been deleted from the registry; cur the socket
\* whose send is awaited; delivered and pruned: the sends that succeeded and
\* the deletions made, in order; n counts the calls
NoFanOut ==
    [pc |-> "idle", conv |-> 0, exclude |-> NoSock, used |-> 0, len |-> 0,
     visited |-> {}, snapshot |-> {}, detached |-> FALSE, cur |-> NoSock,
     disconnected |-> << >>, delivered |-> << >>, pruned |-> << >>,
     error |-> "none", n |-> 0]

\* the client inboxes are not followed
NoInbox == << >>

RECURSIVE JournalNewestFirst(_, _, _)
RECURSIVE Journal(_, _, _)

\* send_json calls that deliver in the reverse of the order they were made
JournalNewestFirst(h, s, sends) ==
    IF h = NoInbox \/ sends = << >> THEN h
    ELSE LET rec == Head(sends)
             rest == JournalNewestFirst(h, s, Tail(sends))
         IN  IF rec.ev.type # "message" THEN rest
             ELSE [w \in DOMAIN rest |->
                      IF w \in rec.to
                      THEN <<[id |-> rec.ev.id, from |-> s]>> \o rest[w]
                      ELSE rest[w]]

\* the inboxes after the handler of socket s made the send_json calls of
\* sends: each call that completed appends the event to its target's inbox
Journal(h, s, sends) ==
    IF h = NoInbox \/ sends = << >> THEN h
    ELSE LET rec == Head(sends)
             h1 == IF rec.ev.type # "message" THEN h
                   ELSE [w \in DOMAIN h |->
                            IF w \in rec.to
                            THEN Append(h[w], [id |-> rec.ev.id, from |-> s])
                            ELSE h[w]]
         IN  Journal(h1, s, Tail(sends))

Idle == [close |-> 0, reason |-> "", sends |-> << >>, resp |-> << >>]

\* ------------------------------------------------------ ConnectionManager
\* ConnectionManager.connect (after accept)
connect(reg, ws, cid, uid) ==
    LET bucket == IF cid \in DOMAIN reg THEN reg[cid] ELSE << >>
    IN  [c \in DOMAIN reg \cup {cid} |->
            IF c = cid THEN [w \in DOMAIN bucket \cup {ws} |->
                                IF w = ws THEN uid ELSE bucket[w]]
            ELSE reg[c]]

\* del d[k] raises KeyError iff k is no key of d
DelRaises(d, k) == k \notin DOMAIN d

\* a disconnect whose del statements run without the membership tests
disconnectRaisesUnguarded(reg, ws, cid) ==
    \/ cid \notin DOMAIN reg
    \/ DelRaises(reg[cid], ws)

\* ConnectionManager.disconnect raises: a del reached with its key missing
disconnectRaises(reg, ws, cid) ==
    /\ cid \in DOMAIN reg
    /\ ws \in DOMAIN reg[cid]
    /\ \/ DelRaises(reg[cid], ws)
       \/ DOMAIN reg[cid] \ {ws} = {} /\ DelRaises(reg, cid)

\* a disconnect that forgets to delete the socket
disconnectKeep(reg, ws, cid) == reg

\* ConnectionManager.disconnect
disconnect(reg, ws, cid) ==
    IF cid \in DOMAIN reg /\ ws \in DOMAIN reg[cid]
    THEN LET rest == DOMAIN reg[cid] \ {ws}
         IN  IF rest = {}
             THEN Restrict(reg, DOMAIN reg \ {cid})
             ELSE [reg EXCEPT ![cid] = Restrict(reg[cid], rest)]
    ELSE reg

\* websocket.send_json on socket w raises iff its transport is gone
SendFails(w) == w \notin alive

\* a fan-out that forgets the exclude_websocket test
TargetsKeepSender(reg, cid, exclude) ==
    IF cid \in DOMAIN reg THEN DOMAIN reg[cid] ELSE {}

\* the sockets send_to_conversation attempts
Targets(reg, cid, exclude) ==
    IF cid \in DOMAIN reg THEN DOMAIN reg[cid] \ {exclude} ELSE {}

\* a fan-out without the try/except: the first failed send ends the loop
send_to_conversation_abort(reg, cid, ev, exclude) ==
    LET targets == Targets(reg, cid, exclude)
        failed == {w \in targets : SendFails(w)}
    IN  [reg |-> reg,
         rec |-> IF cid \in DOMAIN reg
                 THEN << [kind |-> "broadcast", conv |-> cid, exclude |-> exclude, ev |-> ev,
                          to |-> IF failed = {} THEN targets ELSE {},
                          failed |-> failed] >>
                 ELSE << >>]

\* ConnectionManager.send_to_conversation: the registry it leaves and the
\* record of its sends
send_to_conversation(reg, cid, ev, exclude) ==
    LET targets == Targets(reg, cid, exclude)
        failed == {w \in targets : SendFails(w)}
    IN  [reg |-> IF cid \in DOMAIN reg
                 THEN [reg EXCEPT ![cid] = Restrict(reg[cid], DOMAIN reg[cid] \ failed)]
                 ELSE reg,
         rec |-> IF cid \in DOMAIN reg
                 THEN << [kind |-> "broadcast", conv |-> cid, exclude |-> exclude, ev |-> ev,
                          to |-> targets \ failed, failed |-> failed] >>
                 ELSE << >>]

\* ------------------------------------------------------------ credentials
\* jwt.decode: raises JWTError, or yields a payload whose "sub" may be absent
JwtDecode(token) ==
    CASE token = "expired" -> [ok |-> FALSE, sub |-> None]
      [] token = "nosub" -> [ok |-> TRUE, sub |-> None]
      [] OTHER -> [ok |-> TRUE, sub |-> token]

verify_websocket_token(token) ==
    LET payload == JwtDecode(token)
    IN  IF ~payload.ok THEN None
        ELSE IF payload.sub = None THEN None
        ELSE payload.sub

\* a user lookup without the is_active test
UserOkAnyRow(username) == username \in DOMAIN UserRows

\* db.query(User).filter(User.username == username).first() and the is_active test
UserOk(username) ==
    username \in DOMAIN UserRows /\ UserRows[username].is_active

\* a conversation lookup without the participant filter
FindConversationAnyUser(cid, uid) == IF cid \in DOMAIN ConvRows THEN cid ELSE 0

\* the conversation lookup of the session handler: the row, or None
FindConversation(cid, uid) ==
    IF cid \in DOMAIN ConvRows
       /\ (ConvRows[cid].user1_id = uid \/ ConvRows[cid].user2_id = uid)
    THEN cid ELSE 0

\* the conversation lookup of get_messages
RestFindConversation(cid, uid) ==
    IF cid \in DOMAIN ConvRows
       /\ (ConvRows[cid].user1_id = uid \/ ConvRows[cid].user2_id = uid)
    THEN cid ELSE 0

\* other_user_id
OtherUser(cid, uid) ==
    IF ConvRows[cid].user1_id = uid THEN ConvRows[cid].user2_id ELSE ConvRows[cid].user1_id

\* -------------------------------------------------------- message status
\* a bulk UPDATE without the sender filter
BulkUpdateAnySender(msgs, cid, sender, from, to) ==
    [i \in DOMAIN msgs |->
        IF msgs[i].conversation_id = cid /\ msgs[i].status = from
        THEN [msgs[i] EXCEPT !.status = to]
        ELSE msgs[i]]

\* one bulk UPDATE ... WHERE conversation_id, sender_id, status = from
BulkUpdate(msgs, cid, sender, from, to) ==
    [i \in DOMAIN msgs |->
        IF msgs[i].conversation_id = cid /\ msgs[i].sender_id = sender
           /\ msgs[i].status = from
        THEN [msgs[i] EXCEPT !.status = to]
        ELSE msgs[i]]

\* a connect sweep that stops after its first phase
SweepDeliveredOnly(msgs, cid, sender) ==
    BulkUpdate(msgs, cid, sender, SENT, DELIVERED)

\* the two bulk updates run on connect
Sweep(msgs, cid, sender) ==
    BulkUpdate(BulkUpdate(msgs, cid, sender, SENT, DELIVERED),
               cid, sender, DELIVERED, READ)

\* the two bulk updates run by get_messages
RestSweep(msgs, cid, sender) ==
    BulkUpdate(BulkUpdate(msgs, cid, sender, SENT, DELIVERED),
               cid, sender, DELIVERED, READ)

\* one bulk UPDATE ... WHERE room_id, sender_id != current user, status = from
BulkRoomUpdate(msgs, rid, uid, from, to) ==
    [i \in DOMAIN msgs |->
        IF msgs[i].room_id = rid /\ msgs[i].sender_id # uid
           /\ msgs[i].status = from
        THEN [msgs[i] EXCEPT !.status = to]
        ELSE msgs[i]]

\* the two bulk updates run by get_room_messages
RoomSweep(msgs, rid, uid) ==
    BulkRoomUpdate(BulkRoomUpdate(msgs, rid, uid, SENT, DELIVERED),
                   rid, uid, DELIVERED, READ)

\* the assignment made by an explicit status_update
StatusAfterUpdate(cur, new_status) ==
    IF new_status = "delivered" THEN DELIVERED
    ELSE IF new_status = "read" THEN READ
    ELSE cur

\* -------------------------------------------------------------- presence
\* an online test that counts the boundary as online
IsOnlineInclusive(uid) ==
    IF uid \in DOMAIN online_users
    THEN now - online_users[uid] <= ONLINE_WINDOW
    ELSE FALSE

\* the online test of get_conversations
IsOnline(uid) ==
    IF uid \in DOMAIN online_users
    THEN now - online_users[uid] < ONLINE_WINDOW
    ELSE FALSE

Init ==
    /\ active_connections = << >>
    /\ online_users = << >>
    /\ messages = << >>
    /\ conversations = [c \in DOMAIN ConvRows |-> [last_message_at |-> 0]]
    /\ sess = [s \in Sockets |-> NoSession]
    /\ alive = Sockets
    /\ now = 0
    /\ ticks = 0
    /\ out = Idle
    /\ fanout = NoFanOut
    /\ inbox = NoInbox
    /\ store = SeededStore
    /\ requests = [t \in Threads |-> NoRequest]

\* -------------------------------------------------------------- actions
\* websocket.close(code=WS_1008_POLICY_VIOLATION, reason=...) and return
Reject(s, reason) ==
    /\ sess' = [sess EXCEPT ![s] = [NoSession EXCEPT !.pc = "closed"]]
    /\ out' = [Idle EXCEPT !.close = WS_1008_POLICY_VIOLATION, !.reason = reason]
    /\ UNCHANGED <<active_connections, online_users, messages>>

\* websocket_endpoint from its entry to the first receive
Connect(s, cid, token) ==
    /\ sess[s].pc = "init"
    /\ LET username == verify_websocket_token(token)
       IN  IF username = None
           THEN Reject(s, "Invalid or expired token")
           ELSE IF ~UserOk(username)
           THEN Reject(s, "User not found or inactive")
           ELSE IF FindConversation(cid, UserRows[username].id) = 0
           THEN Reject(s, "")
           ELSE LET uid == UserRows[username].id
                    reg1 == connect(active_connections, s, cid, uid)
                    b == send_to_conversation(reg1, cid,
                            [type |-> "user_status", user_id |-> uid, is_online |-> TRUE], s)
                IN  /\ online_users' = (uid :> now) @@ online_users
                    /\ active_connections' = b.reg
                    /\ messages' = Sweep(messages, cid, OtherUser(cid, uid))
                    /\ sess' = [sess EXCEPT ![s] = [pc |-> "active", conv |-> cid, user |-> username]]
                    /\ out' = [Idle EXCEPT !.sends = b.rec]
    /\ UNCHANGED <<alive, now, ticks, conversations, fanout, inbox, store, requests>>

\* the client side of socket s goes away
Drop(s) ==
    /\ sess[s].pc = "active"
    /\ s \in alive
    /\ alive' = alive \ {s}
    /\ out' = Idle
    /\ UNCHANGED <<active_connections, online_users, messages, sess, now, ticks, conversations, fanout, inbox, store, requests>>

\* the presence removal raises: del online_users[user.id] with the key missing
mark_offlineRaises(online, uid) == uid \in DOMAIN online /\ DelRaises(online, uid)

\* if user.id in online_users: del online_users[user.id]
mark_offline(online, uid) ==
    IF uid \in DOMAIN online THEN Restrict(online, DOMAIN online \ {uid}) ELSE online

\* a cleanup that leaves the presence entry in place
CleanupKeepPresence(s, reg) ==
    LET cid == sess[s].conv
        uid == UserRows[sess[s].user].id
        b == send_to_conversation(disconnect(reg, s, cid), cid,
                [type |-> "user_status", user_id |-> uid, is_online |-> FALSE], NoSock)
    IN  [reg |-> b.reg, online |-> online_users, rec |-> b.rec]

\* the except WebSocketDisconnect block of websocket_endpoint, run for socket s
\* on registry reg: the registry and presence map it leaves, and its sends
Cleanup(s, reg) ==
    LET cid == sess[s].conv
        uid == UserRows[sess[s].user].id
        b == send_to_conversation(disconnect(reg, s, cid), cid,
                [type |-> "user_status", user_id |-> uid, is_online |-> FALSE], NoSock)
    IN  [reg |-> b.reg,
         online |-> mark_offline(online_users, uid),
         rec |-> b.rec]

\* receive_text raises WebSocketDisconnect
Disconnect(s) ==
    /\ sess[s].pc = "active"
    /\ s \notin alive
    /\ LET c == Cleanup(s, active_connections)
       IN  /\ active_connections' = c.reg
           /\ online_users' = c.online
           /\ out' = [Idle EXCEPT !.sends = c.rec]
    /\ sess' = [sess EXCEPT ![s] = [NoSession EXCEPT !.pc = "closed"]]
    /\ UNCHANGED <<messages, alive, now, ticks, conversations, fanout, inbox, store, requests>>

\* the row inserted for an accepted 'message' event
NewMessage(cid, uid, content, is_encrypted) ==
    [conversation_id |-> cid, room_id |-> 0, sender_id |-> uid, status |-> SENT,
     content |-> content, is_encrypted |-> is_encrypted]

\* a commit whose failure is swallowed: the handler goes on
CommitRaisesNever(commit_ok) == FALSE

\* db.commit() raises when the store cannot persist the transaction
CommitRaises(commit_ok) == ~commit_ok

\* an update of last_message_at made before the content test
TouchAlways(convs, cid, content) ==
    [convs EXCEPT ![cid].last_message_at = now]

\* conversation.last_message_at = datetime.now(timezone.utc), reached only
\* with non-empty content
Touch(convs, cid, content) ==
    IF content = << >> THEN convs
    ELSE [convs EXCEPT ![cid].last_message_at = now]

\* a payload that carries the stored content
DisplayStored(stored, is_encrypted) == stored

\* display_content: the stored content, decrypted when the flag is set
Display(stored, is_encrypted) ==
    IF is_encrypted THEN decrypt_message(stored) ELSE stored

\* message_payload
MessagePayload(id, display, uid, cid, is_encrypted) ==
    [type |-> "message", id |-> id, content |-> display, sender_id |-> uid,
     conversation_id |-> cid, status |-> SENT, is_encrypted |-> is_encrypted]

\* the 'message' branch of the receive loop: text is the content field,
\* is_encrypted the encrypt flag, commit_ok whether db.commit() succeeds, exc
\* the exception a failed personal send raises
HandleMessage(s, text, is_encrypted, commit_ok, exc) ==
    /\ sess[s].pc = "active"
    /\ LET cid == sess[s].conv
           uid == UserRows[sess[s].user].id
           content == Strip(text)
           stored == IF is_encrypted THEN encrypt_message(content) ELSE content
           payload == MessagePayload(Len(messages) + 1, Display(stored, is_encrypted),
                                     uid, cid, is_encrypted)
           b == send_to_conversation(active_connections, cid, payload, s)
           echo == [kind |-> "personal", conv |-> cid, exclude |-> NoSock, ev |-> payload,
                    to |-> {s} \ {w \in {s} : SendFails(w)},
                    failed |-> {w \in {s} : SendFails(w)}]
       IN  IF content = << >>
           THEN /\ conversations' = Touch(conversations, cid, content)
                /\ out' = Idle
                /\ UNCHANGED <<active_connections, online_users, messages, sess, alive>>
           ELSE IF CommitRaises(commit_ok)
           THEN /\ sess' = [sess EXCEPT ![s] = [NoSession EXCEPT !.pc = "crashed"]]
                /\ alive' = alive \ {s}
                /\ out' = Idle
                /\ UNCHANGED <<active_connections, online_users, messages, conversations>>
           ELSE \* past the commit: the row and the timestamp are in the store
                \* exactly when the commit succeeded
                /\ messages' = IF commit_ok
                               THEN Append(messages, NewMessage(cid, uid, stored, is_encrypted))
                               ELSE messages
                /\ conversations' = IF commit_ok
                                    THEN Touch(conversations, cid, content)
                                    ELSE conversations
                /\ UNCHANGED alive
                /\ IF ~SendFails(s)
                   THEN /\ exc = "none"
                        /\ active_connections' = b.reg
                        /\ out' = [Idle EXCEPT !.sends = b.rec \o <<echo>>]
                        /\ UNCHANGED <<online_users, sess>>
                   ELSE IF exc = "WebSocketDisconnect"
                   THEN LET c == Cleanup(s, b.reg)
                        IN  /\ active_connections' = c.reg
                            /\ online_users' = c.online
                            /\ sess' = [sess EXCEPT ![s] = [NoSession EXCEPT !.pc = "closed"]]
                            /\ out' = [Idle EXCEPT !.sends = b.rec \o <<echo>> \o c.rec]
                   ELSE /\ exc = "RuntimeError"
                        /\ active_connections' = b.reg
                        /\ sess' = [sess EXCEPT ![s] = [NoSession EXCEPT !.pc = "crashed"]]
                        /\ out' = [Idle EXCEPT !.sends = b.rec \o <<echo>>]
                        /\ UNCHANGED online_users
    /\ inbox' = Journal(inbox, s, out'.sends)
    /\ UNCHANGED <<now, ticks, fanout, store, requests>>

\* the 'message' branch for an event without the encrypt flag whose commit
\* succeeds
ReceiveMessage(s, text, exc) == HandleMessage(s, text, FALSE, TRUE, exc)

\* the 'typing' branch of the receive loop
ReceiveTyping(s, is_typing) ==
    /\ sess[s].pc = "active"
    /\ LET b == send_to_conversation(active_connections, sess[s].conv,
                    [type |-> "typing", username |-> sess[s].user, is_typing |-> is_typing], s)
       IN  /\ active_connections' = b.reg
           /\ out' = [Idle EXCEPT !.sends = b.rec]
    /\ UNCHANGED <<online_users, messages, sess, alive, now, ticks, conversations, fanout, inbox, store, requests>>

\* a status_update test without the conversation check
StatusUpdateAnyConversation(message_id, new_status, cid) ==
    /\ message_id # 0
    /\ new_status # ""
    /\ message_id \in DOMAIN messages

\* the test that lets a status_update touch message message_id
StatusUpdateApplies(message_id, new_status, cid) ==
    /\ message_id # 0
    /\ new_status # ""
    /\ message_id \in DOMAIN messages
    /\ messages[message_id].conversation_id = cid

\* the 'status_update' branch of the receive loop
ReceiveStatusUpdate(s, message_id, new_status) ==
    /\ sess[s].pc = "active"
    /\ IF StatusUpdateApplies(message_id, new_status, sess[s].conv)
       THEN LET b == send_to_conversation(active_connections, sess[s].conv,
                        [type |-> "status_update", message_id |-> message_id,
                         status |-> new_status], s)
            IN  /\ messages' = [messages EXCEPT ![message_id].status =
                                    StatusAfterUpdate(@, new_status)]
                /\ active_connections' = b.reg
                /\ out' = [Idle EXCEPT !.sends = b.rec]
       ELSE /\ out' = Idle
            /\ UNCHANGED <<active_connections, messages>>
    /\ UNCHANGED <<online_users, sess, alive, now, ticks, conversations, fanout, inbox, store, requests>>

\* a well-formed event of any other type: no branch of the loop matches
ReceiveOther(s) ==
    /\ sess[s].pc = "active"
    /\ out' = Idle
    /\ UNCHANGED <<active_connections, online_users, messages, sess, alive, now, ticks, conversations, fanout, inbox, store, requests>>

\* json.loads raises on the inbound text: the exception leaves websocket_endpoint
ReceiveMalformed(s) ==
    /\ sess[s].pc = "active"
    /\ sess' = [sess EXCEPT ![s] = [NoSession EXCEPT !.pc = "crashed"]]
    /\ alive' = alive \ {s}
    /\ out' = Idle
    /\ UNCHANGED <<active_connections, online_users, messages, now, ticks, conversations, fanout, inbox, store, requests>>

\* a chain of tests whose last branch is an else
DispatchTypingElse(type) ==
    IF type \in {"message", "status_update"} THEN type ELSE "typing"

\* the if/elif chain on message_data.get("type"): the branch taken, "none"
\* when no test matches
Dispatch(type) ==
    IF type \in {"message", "typing", "status_update"} THEN type ELSE "none"

\* the receive loop on a well-formed event that carries a type field only (or
\* not even that: type None); every other field takes its default
ReceiveBare(s, type) ==
    LET branch == Dispatch(type)
    IN  IF branch = "message" THEN HandleMessage(s, << >>, FALSE, TRUE, "none")
        ELSE IF branch = "typing" THEN ReceiveTyping(s, FALSE)
        ELSE IF branch = "status_update" THEN ReceiveStatusUpdate(s, 0, "")
        ELSE ReceiveOther(s)

\* GET /api/conversations/{id}/messages by REST user u: the status sweep
GetMessages(u, cid) ==
    /\ LET uid == UserRows[u].id
       IN  IF RestFindConversation(cid, uid) = 0
           THEN UNCHANGED messages
           ELSE messages' = RestSweep(messages, cid, OtherUser(cid, uid))
    /\ out' = Idle
    /\ UNCHANGED <<active_connections, online_users, sess, alive, now, ticks, conversations, fanout, inbox, store, requests>>

\* a room message row that starts past SENT
NewRoomMessageDelivered(rid, uid, content) ==
    [conversation_id |-> 0, room_id |-> rid, sender_id |-> uid, status |-> DELIVERED,
     content |-> content, is_encrypted |-> FALSE]

\* the row inserted by send_room_message: no conversation (0 stands for
\* NULL), sent without the encrypt flag
NewRoomMessage(rid, uid, content) ==
    [conversation_id |-> 0, room_id |-> rid, sender_id |-> uid, status |-> SENT,
     content |-> content, is_encrypted |-> FALSE]

\* POST /api/rooms/{room_id}/messages by REST user u; the 400, 404 and 403
\* answers change nothing
SendRoomMessage(u, rid, text) ==
    /\ LET uid == UserRows[u].id
           content == Strip(text)
       IN  IF content = << >> \/ rid \notin DOMAIN RoomRows
              \/ [room_id |-> rid, user_id |-> uid] \notin RoomMemberRows
           THEN UNCHANGED messages
           ELSE messages' = Append(messages, NewRoomMessage(rid, uid, content))
    /\ out' = Idle
    /\ UNCHANGED <<active_connections, online_users, sess, alive, now, ticks, conversations, fanout, inbox, store, requests>>

\* GET /api/rooms/{room_id}/messages by REST user u: the status sweep; the 404
\* and 403 answers change nothing
GetRoomMessages(u, rid) ==
    /\ LET uid == UserRows[u].id
       IN  IF rid \notin DOMAIN RoomRows
              \/ [room_id |-> rid, user_id |-> uid] \notin RoomMemberRows
           THEN UNCHANGED messages
           ELSE messages' = RoomSweep(messages, rid, uid)
    /\ out' = Idle
    /\ UNCHANGED <<active_connections, online_users, sess, alive, now, ticks, conversations, fanout, inbox, store, requests>>

\* display_content of a row in get_messages, last_message_content in
\* get_conversations: decrypt_message raises nothing, so the except branches
\* of both are never taken
DisplayRow(row, key) ==
    IF row.is_encrypted THEN decrypt_with(key, row.content) ELSE row.content

\* GET /api/conversations/{id}/messages by REST user u in a process whose key
\* is key, with its response body: the status sweep, then the rows of the
\* conversation with their display content
ReadMessages(u, cid, key) ==
    /\ LET uid == UserRows[u].id
       IN  IF RestFindConversation(cid, uid) = 0
           THEN /\ out' = [Idle EXCEPT !.reason = "404"]
                /\ UNCHANGED messages
           ELSE LET swept == RestSweep(messages, cid, OtherUser(cid, uid))
                    rows == SelectSeq([i \in DOMAIN swept |-> [id |-> i, row |-> swept[i]]],
                                      LAMBDA r : r.row.conversation_id = cid)
                IN  /\ messages' = swept
                    /\ out' = [Idle EXCEPT !.resp =
                                 [k \in DOMAIN rows |->
                                     [id |-> rows[k].id,
                                      content |-> DisplayRow(rows[k].row, key),
                                      status |-> rows[k].row.status,
                                      is_encrypted |-> rows[k].row.is_encrypted]]]
    /\ UNCHANGED <<active_connections, online_users, sess, alive, now, ticks, conversations, fanout, inbox, store, requests>>

\* unread_count of get_conversations for user uid and conversation c: the
\* messages of c not sent by uid and not READ (no message is deleted here)
unread_count(msgs, c, uid) ==
    Cardinality({i \in DOMAIN msgs :
                    /\ msgs[i].conversation_id = c
                    /\ msgs[i].sender_id # uid
                    /\ msgs[i].status # READ})

\* the id of the newest message of conversation c, 0 when it has none
LastMessage(c) ==
    LET ids == {i \in DOMAIN messages : messages[i].conversation_id = c}
    IN  IF ids = {} THEN 0 ELSE CHOOSE i \in ids : \A j \in ids : j <= i

\* GET /api/conversations/ by REST user u in a process whose key is key, with
\* the preview of each conversation
ReadConversations(u, key) ==
    /\ LET uid == UserRows[u].id
           mine == {c \in DOMAIN ConvRows :
                        ConvRows[c].user1_id = uid \/ ConvRows[c].user2_id = uid}
       IN  out' = [Idle EXCEPT !.resp = [c \in mine |->
                      [other_user_id |-> OtherUser(c, uid),
                       other_user_online |-> IsOnline(OtherUser(c, uid)),
                       id |-> LastMessage(c),
                       is_encrypted |-> IF LastMessage(c) = 0 THEN FALSE
                                        ELSE messages[LastMessage(c)].is_encrypted,
                       content |-> IF LastMessage(c) = 0 THEN None
                                   ELSE DisplayRow(messages[LastMessage(c)], key)]]]
    /\ UNCHANGED <<active_connections, online_users, messages, sess, alive, now, ticks, conversations, fanout, inbox, store, requests>>

\* a get_conversations that marks its caller active
GetConversationsTouch(u) ==
    /\ out' = Idle
    /\ online_users' = (UserRows[u].id :> now) @@ online_users
    /\ UNCHANGED <<active_connections, messages, sess, alive, now, ticks, conversations, fanout, inbox, store, requests>>

\* GET /api/conversations/ by REST user u: other_user_online of each conversation
GetConversations(u) ==
    /\ LET uid == UserRows[u].id
           mine == {c \in DOMAIN ConvRows :
                        ConvRows[c].user1_id = uid \/ ConvRows[c].user2_id = uid}
       IN  out' = [Idle EXCEPT !.resp = [c \in mine |->
                                    [other_user_id |-> OtherUser(c, uid),
                                     other_user_online |-> IsOnline(OtherUser(c, uid))]]]
    /\ UNCHANGED <<active_connections, online_users, messages, sess, alive, now, ticks, conversations, fanout, inbox, store, requests>>

Tick(d) ==
    /\ ticks < MaxTicks
    /\ now' = now + d
    /\ ticks' = ticks + 1
    /\ out' = Idle
    /\ UNCHANGED <<active_connections, online_users, messages, sess, alive, conversations, fanout, inbox, store, requests>>

\* the steps of socket s's session, with at most cap message rows
SocketStep(s, cap) ==
    \/ \E cid \in ConvIdInputs, token \in Tokens : Connect(s, cid, token)
    \/ Drop(s)
    \/ Disconnect(s)
    \/ \E text \in Contents, exc \in Exceptions :
          /\ Strip(text) = << >> \/ Len(messages) < cap
          /\ ReceiveMessage(s, text, exc)
    \/ \E is_typing \in BOOLEAN : ReceiveTyping(s, is_typing)
    \/ \E message_id \in 0..(cap + 1), new_status \in StatusInputs :
          ReceiveStatusUpdate(s, message_id, new_status)
    \/ ReceiveOther(s)
    \/ \E type \in EventTypes : ReceiveBare(s, type)
    \/ ReceiveMalformed(s)

Next ==
    \/ \E s \in Sockets : SocketStep(s, MaxMsgs)
    \/ \E u \in RestUsers, cid \in ConvIdInputs : GetMessages(u, cid)

Spec == Init /\ [][Next]_vars

\* the message status machine: two sockets, more messages
NextStatus ==
    \/ \E s \in 1..MaxStatusSockets : SocketStep(s, MaxStatusMsgs)
    \/ \E u \in RestUsers, cid \in ConvIdInputs : GetMessages(u, cid)
    \/ \E u \in RestUsers, rid \in RoomIdInputs, text \in Contents :
          /\ Len(messages) < MaxStatusMsgs
          /\ SendRoomMessage(u, rid, text)
    \/ \E u \in RestUsers, rid \in RoomIdInputs : GetRoomMessages(u, rid)

SpecStatus == Init /\ [][NextStatus]_vars

\* presence over time: joins, leaves, the clock and the conversation list
NextPresence ==
    \/ \E s \in Sockets, cid \in ConvIdInputs, token \in Tokens : Connect(s, cid, token)
    \/ \E s \in Sockets : Drop(s)
    \/ \E s \in Sockets : Disconnect(s)
    \/ \E u \in RestUsers : GetConversations(u)
    \/ \E d \in TickSteps : Tick(d)

SpecPresence == Init /\ [][NextPresence]_vars

\* message handling: every input of the 'message' branch, the events that end
\* a session, and the clock
NextMessage ==
    \/ \E s \in 1..MaxMessageSockets, cid \in ConvIdInputs, token \in Tokens :
          Connect(s, cid, token)
    \/ \E s \in 1..MaxMessageSockets : Drop(s)
    \/ \E s \in 1..MaxMessageSockets : Disconnect(s)
    \/ \E s \in 1..MaxMessageSockets, text \in Contents, is_encrypted \in BOOLEAN,
          commit_ok \in BOOLEAN, exc \in Exceptions :
          /\ Strip(text) = << >> \/ Len(messages) < MaxMessageMsgs
          /\ HandleMessage(s, text, is_encrypted, commit_ok, exc)
    \/ \E s \in 1..MaxMessageSockets : ReceiveOther(s)
    \/ \E s \in 1..MaxMessageSockets : ReceiveMalformed(s)
    \/ Tick(1)

SpecMessage == Init /\ [][NextMessage]_vars

\* ------------------------------------------- send_to_conversation, by awaits
\* the keys of the dict the for loop iterates: the bucket object it took when
\* the loop started, which is empty once it has been deleted from the registry
IterKeys(f, reg) ==
    IF f.detached \/ f.conv \notin DOMAIN reg THEN {} ELSE DOMAIN reg[f.conv]

Raised(f, error) == [f EXCEPT !.pc = "raised", !.error = error, !.cur = NoSock]

\* one next() of the dict iterator over keys: RuntimeError when the size is not
\* the one it started with; exhaustion when no key lies past the ones it has
\* passed; RuntimeError when a key lies there although it has none left; else a
\* key not yet passed, those present from the start before those inserted since
dict_next(f, keys) ==
    IF Cardinality(keys) # f.used
    THEN {Raised(f, "RuntimeError: dictionary changed size during iteration")}
    ELSE LET rest == keys \ f.visited
             old == rest \cap f.snapshot
             cand == IF old # {} THEN old ELSE rest
         IN  IF rest = {} THEN {[f EXCEPT !.pc = "exhausted", !.cur = NoSock]}
             ELSE IF f.len = 0
             THEN {Raised(f, "RuntimeError: dictionary keys changed during iteration")}
             ELSE {[f EXCEPT !.pc = "send", !.cur = w, !.visited = @ \cup {w},
                             !.len = @ - 1] : w \in cand}

\* the for loop up to its next await: the excluded socket is passed without one
Advance(f, keys) ==
    UNION {IF r.pc = "send" /\ r.cur = f.exclude THEN dict_next(r, keys) ELSE {r} :
              r \in dict_next(f, keys)}

\* the clean-up loop over disconnected, which looks the bucket up again
Prune(f, reg) ==
    LET failed == {f.disconnected[i] : i \in DOMAIN f.disconnected}
    IN  IF failed = {} THEN [f |-> [f EXCEPT !.pc = "returned"], reg |-> reg]
        ELSE IF f.conv \notin DOMAIN reg
        THEN [f |-> Raised(f, "KeyError"), reg |-> reg]
        ELSE [f |-> [f EXCEPT !.pc = "returned",
                              !.pruned = SelectSeq(f.disconnected,
                                            LAMBDA w : w \in DOMAIN reg[f.conv])],
              reg |-> [reg EXCEPT ![f.conv] =
                          Restrict(reg[f.conv], DOMAIN reg[f.conv] \ failed)]]

\* where the call stands once the loop has advanced to r
Settle(r) ==
    IF r.pc = "exhausted"
    THEN LET p == Prune(r, active_connections)
         IN  /\ fanout' = p.f
             /\ active_connections' = p.reg
    ELSE /\ fanout' = r
         /\ UNCHANGED active_connections

\* the handler of socket s calls send_to_conversation with itself excluded:
\* the call up to its first awaited send, or to its return
FanStart(s) ==
    /\ fanout.pc \in {"idle", "returned", "raised"}
    /\ fanout.n < MaxFanOuts
    /\ sess[s].pc = "active"
    /\ LET cid == sess[s].conv
           keys == IF cid \in DOMAIN active_connections
                   THEN DOMAIN active_connections[cid] ELSE {}
           f0 == [NoFanOut EXCEPT !.conv = cid, !.exclude = s, !.n = fanout.n + 1,
                                  !.used = Cardinality(keys), !.len = Cardinality(keys),
                                  !.snapshot = keys]
       IN  IF cid \notin DOMAIN active_connections
           THEN /\ fanout' = [f0 EXCEPT !.pc = "returned"]
                /\ UNCHANGED active_connections
           ELSE \E r \in Advance(f0, keys) : Settle(r)
    /\ out' = Idle
    /\ UNCHANGED <<online_users, messages, conversations, sess, alive, now, ticks, inbox, store, requests>>

\* the awaited send completes or raises, and the call runs on to its next
\* awaited send, to its return or to an exception
FanResume ==
    /\ fanout.pc = "send"
    /\ LET w == fanout.cur
           f1 == IF SendFails(w)
                 THEN [fanout EXCEPT !.disconnected = Append(@, w)]
                 ELSE [fanout EXCEPT !.delivered = Append(@, w)]
       IN  \E r \in Advance(f1, IterKeys(f1, active_connections)) : Settle(r)
    /\ out' = Idle
    /\ UNCHANGED <<online_users, messages, conversations, sess, alive, now, ticks, inbox, store, requests>>

\* another session is accepted and registered: websocket_endpoint up to
\* manager.connect
FanJoin(s, cid, token) ==
    /\ sess[s].pc = "init"
    /\ LET username == verify_websocket_token(token)
       IN  /\ username # None
           /\ UserOk(username)
           /\ FindConversation(cid, UserRows[username].id) # 0
           /\ online_users' = (UserRows[username].id :> now) @@ online_users
           /\ active_connections' =
                  connect(active_connections, s, cid, UserRows[username].id)
           /\ sess' = [sess EXCEPT ![s] = [pc |-> "active", conv |-> cid, user |-> username]]
    /\ out' = Idle
    /\ UNCHANGED <<messages, conversations, alive, now, ticks, fanout, inbox, store, requests>>

\* another session gets WebSocketDisconnect: manager.disconnect and the
\* presence removal; a bucket deleted under the running loop leaves the loop
\* with the emptied dict
FanLeave(s) ==
    /\ sess[s].pc = "active"
    /\ s \notin alive
    /\ ~(fanout.pc = "send" /\ fanout.exclude = s)
    /\ LET cid == sess[s].conv
           reg1 == disconnect(active_connections, s, cid)
       IN  /\ active_connections' = reg1
           /\ online_users' = mark_offline(online_users, UserRows[sess[s].user].id)
           /\ fanout' = IF /\ fanout.pc = "send"
                           /\ fanout.conv = cid
                           /\ cid \in DOMAIN active_connections
                           /\ cid \notin DOMAIN reg1
                        THEN [fanout EXCEPT !.detached = TRUE]
                        ELSE fanout
    /\ sess' = [sess EXCEPT ![s] = [NoSession EXCEPT !.pc = "closed"]]
    /\ out' = Idle
    /\ UNCHANGED <<messages, conversations, alive, now, ticks, inbox, store, requests>>

\* ------------------------------------------------------ delivery order
\* the receive loops of MaxOrderSockets sessions with the inbox of every
\* client followed
InitOrder ==
    /\ active_connections = << >>
    /\ online_users = << >>
    /\ messages = << >>
    /\ conversations = [c \in DOMAIN ConvRows |-> [last_message_at |-> 0]]
    /\ sess = [s \in Sockets |-> NoSession]
    /\ alive = Sockets
    /\ now = 0
    /\ ticks = 0
    /\ out = Idle
    /\ fanout = NoFanOut
    /\ inbox = [s \in Sockets |-> << >>]
    /\ store = SeededStore
    /\ requests = [t \in Threads |-> NoRequest]

NextOrder ==
    \E s \in 1..MaxOrderSockets :
        \/ \E cid \in DOMAIN ConvRows, token \in {"alice", "bob"} : Connect(s, cid, token)
        \/ Drop(s)
        \/ Disconnect(s)
        \/ \E exc \in Exceptions :
              /\ Len(messages) < MaxOrderMsgs
              /\ HandleMessage(s, <<" ", "h", " ">>, FALSE, TRUE, exc)

SpecOrder == InitOrder /\ [][NextOrder]_vars

\* --------------------------------------------------- rooms and conversations
\* db.query(User).filter(User.id == uid).first() finds a row
UserExists(uid) == \E n \in DOMAIN UserRows : UserRows[n].id = uid

\* the ids of the membership rows of user uid in room rid
MemberRows(st, rid, uid) ==
    {i \in DOMAIN st.room_members :
        st.room_members[i] = [room_id |-> rid, user_id |-> uid]}

\* the ids of the conversations between users a and b, in either order
ConversationsOf(st, a, b) ==
    {c \in DOMAIN st.conv_rows :
        \/ st.conv_rows[c] = [user1_id |-> a, user2_id |-> b]
        \/ st.conv_rows[c] = [user1_id |-> b, user2_id |-> a]}

\* sequence q without its element at position i
RemoveAt(q, i) == SubSeq(q, 1, i - 1) \o SubSeq(q, i + 1, Len(q))

\* the requests of kind op that have passed their queries
Pending(op) == {t \in Threads : requests[t].op = op}

\* the answer of a REST handler that changes nothing: the detail of its
\* HTTPException, or its status
Answer(code) ==
    /\ out' = [Idle EXCEPT !.reason = code]
    /\ UNCHANGED <<store, requests>>

\* POST /api/rooms/ by REST user u: the room and its creator's membership are
\* committed together
create_room(u) ==
    /\ Len(store.rooms) < MaxRooms
    /\ Len(store.room_members) + Cardinality(Pending("add_member")) < MaxRoomMembers
    /\ store' = [store EXCEPT
                    !.rooms = Append(@, [creator_id |-> UserRows[u].id]),
                    !.room_members = Append(@, [room_id |-> Len(store.rooms) + 1,
                                                user_id |-> UserRows[u].id])]
    /\ out' = [Idle EXCEPT !.reason = "201"]
    /\ UNCHANGED <<active_connections, online_users, messages, sess, alive, now, ticks, conversations, fanout, inbox, requests>>

\* POST /api/rooms/{rid}/members by REST user u on worker thread t, up to its
\* last query: the room, the creator test, the user and the existing
\* membership are looked up; an error answer ends the request
AddMemberQueries(t, u, rid, uid) ==
    /\ requests[t] = NoRequest
    /\ IF rid \notin DOMAIN store.rooms THEN Answer("Room not found")
       ELSE IF store.rooms[rid].creator_id # UserRows[u].id THEN Answer("Only the room creator can add members")
       ELSE IF ~UserExists(uid) THEN Answer("User not found")
       ELSE IF MemberRows(store, rid, uid) # {} THEN Answer("User is already a member of this room")
       ELSE /\ Len(store.room_members) + Cardinality(Pending("add_member")) < MaxRoomMembers
            /\ requests' = [requests EXCEPT ![t] =
                               [op |-> "add_member", user |-> UserRows[u].id,
                                room_id |-> rid, user_id |-> uid]]
            /\ out' = Idle
            /\ UNCHANGED store
    /\ UNCHANGED <<active_connections, online_users, messages, sess, alive, now, ticks, conversations, fanout, inbox>>

\* the rest of add_member_to_room on thread t: the membership row is added
\* and committed
AddMemberCommit(t) ==
    /\ requests[t].op = "add_member"
    /\ store' = [store EXCEPT !.room_members =
                    Append(@, [room_id |-> requests[t].room_id,
                               user_id |-> requests[t].user_id])]
    /\ requests' = [requests EXCEPT ![t] = NoRequest]
    /\ out' = [Idle EXCEPT !.reason = "201"]
    /\ UNCHANGED <<active_connections, online_users, messages, sess, alive, now, ticks, conversations, fanout, inbox>>

\* a remove_member_from_room without the creator test on the removed user
RemoveMemberAny(u, rid, uid) ==
    /\ IF rid \notin DOMAIN store.rooms THEN Answer("Room not found")
       ELSE IF store.rooms[rid].creator_id # UserRows[u].id THEN Answer("Only the room creator can remove members")
       ELSE IF MemberRows(store, rid, uid) = {} THEN Answer("User is not a member of this room")
       ELSE LET first == CHOOSE i \in MemberRows(store, rid, uid) :
                            \A j \in MemberRows(store, rid, uid) : i <= j
            IN  /\ store' = [store EXCEPT !.room_members = RemoveAt(@, first)]
                /\ out' = [Idle EXCEPT !.reason = "204"]
                /\ UNCHANGED requests
    /\ UNCHANGED <<active_connections, online_users, messages, sess, alive, now, ticks, conversations, fanout, inbox>>

\* DELETE /api/rooms/{rid}/members/{uid} by REST user u: the first membership
\* row found is deleted
remove_member_from_room(u, rid, uid) ==
    /\ IF rid \notin DOMAIN store.rooms THEN Answer("Room not found")
       ELSE IF store.rooms[rid].creator_id # UserRows[u].id THEN Answer("Only the room creator can remove members")
       ELSE IF MemberRows(store, rid, uid) = {} THEN Answer("User is not a member of this room")
       ELSE IF uid = store.rooms[rid].creator_id THEN Answer("Cannot remove the room creator")
       ELSE LET first == CHOOSE i \in MemberRows(store, rid, uid) :
                            \A j \in MemberRows(store, rid, uid) : i <= j
            IN  /\ store' = [store EXCEPT !.room_members = RemoveAt(@, first)]
                /\ out' = [Idle EXCEPT !.reason = "204"]
                /\ UNCHANGED requests
    /\ UNCHANGED <<active_connections, online_users, messages, sess, alive, now, ticks, conversations, fanout, inbox>>

\* POST /api/conversations/with/{uid} by REST user u on worker thread t, up
\* to its last query: an existing conversation is answered as it is
GetOrCreateQueries(t, u, uid) ==
    /\ requests[t] = NoRequest
    /\ IF uid = UserRows[u].id THEN Answer("Cannot create conversation with yourself")
       ELSE IF ~UserExists(uid) THEN Answer("User not found")
       ELSE IF ConversationsOf(store, UserRows[u].id, uid) # {} THEN Answer("200")
       ELSE /\ Len(store.conv_rows) + Cardinality(Pending("create_conversation")) < MaxConvRows
            /\ requests' = [requests EXCEPT ![t] =
                               [op |-> "create_conversation", user |-> UserRows[u].id,
                                room_id |-> 0, user_id |-> uid]]
            /\ out' = Idle
            /\ UNCHANGED store
    /\ UNCHANGED <<active_connections, online_users, messages, sess, alive, now, ticks, conversations, fanout, inbox>>

\* the rest of get_or_create_conversation on thread t: the conversation row
\* is added and committed
GetOrCreateCommit(t) ==
    /\ requests[t].op = "create_conversation"
    /\ store' = [store EXCEPT !.conv_rows =
                    Append(@, [user1_id |-> requests[t].user,
                               user2_id |-> requests[t].user_id])]
    /\ requests' = [requests EXCEPT ![t] = NoRequest]
    /\ out' = [Idle EXCEPT !.reason = "200"]
    /\ UNCHANGED <<active_connections, online_users, messages, sess, alive, now, ticks, conversations, fanout, inbox>>

\* the REST handlers of rooms and conversations on their worker threads
NextRest ==
    \/ \E u \in RestUsers : create_room(u)
    \/ \E t \in Threads, u \in RestUsers, rid \in RoomIdInputs, uid \in UserIdInputs :
          AddMemberQueries(t, u, rid, uid)
    \/ \E t \in Threads : AddMemberCommit(t)
    \/ \E u \in RestUsers, rid \in RoomIdInputs, uid \in UserIdInputs :
          remove_member_from_room(u, rid, uid)
    \/ \E t \in Threads, u \in RestUsers, uid \in UserIdInputs :
          GetOrCreateQueries(t, u, uid)
    \/ \E t \in Threads : GetOrCreateCommit(t)

SpecRest == Init /\ [][NextRest]_vars

\* ------------------------------------------------------------- leaves
\* an offline broadcast outside any try: its exception ends the handler
AfterOfflineBroadcastUnguarded(f) == IF f.pc = "raised" THEN "crashed" ELSE "closed"

\* how the except WebSocketDisconnect block ends once its send_to_conversation
\* call f has returned or raised: 'except: pass' drops the exception and the
\* handler returns
AfterOfflineBroadcast(f) == "closed"

\* receive_text of socket s raises WebSocketDisconnect: manager.disconnect,
\* the presence removal, and the offline broadcast up to its first awaited
\* send, or to its return
LeaveStart(s) ==
    /\ sess[s].pc = "active"
    /\ s \notin alive
    /\ fanout.pc \in {"idle", "returned", "raised"}
    /\ fanout.n < MaxFanOuts
    /\ \A t \in Sockets : sess[t].pc # "leaving"
    /\ LET cid == sess[s].conv
           reg1 == disconnect(active_connections, s, cid)
           keys == IF cid \in DOMAIN reg1 THEN DOMAIN reg1[cid] ELSE {}
           f0 == [NoFanOut EXCEPT !.conv = cid, !.exclude = NoSock, !.n = fanout.n + 1,
                                  !.used = Cardinality(keys), !.len = Cardinality(keys),
                                  !.snapshot = keys]
       IN  /\ online_users' = mark_offline(online_users, UserRows[sess[s].user].id)
           /\ IF cid \notin DOMAIN reg1
              THEN /\ fanout' = [f0 EXCEPT !.pc = "returned"]
                   /\ active_connections' = reg1
              ELSE \E r \in Advance(f0, keys) :
                      IF r.pc = "exhausted"
                      THEN /\ fanout' = Prune(r, reg1).f
                           /\ active_connections' = Prune(r, reg1).reg
                      ELSE /\ fanout' = r
                           /\ active_connections' = reg1
    /\ sess' = [sess EXCEPT ![s].pc = "leaving"]
    /\ out' = Idle
    /\ UNCHANGED <<messages, conversations, alive, now, ticks, inbox, store, requests>>

\* the offline broadcast of socket s has returned or raised: the handler ends
LeaveEnd(s) ==
    /\ sess[s].pc = "leaving"
    /\ fanout.pc \in {"returned", "raised"}
    /\ sess' = [sess EXCEPT ![s] = [NoSession EXCEPT !.pc = AfterOfflineBroadcast(fanout)]]
    /\ out' = Idle
    /\ UNCHANGED <<active_connections, online_users, messages, alive, now, ticks, conversations, fanout, inbox, store, requests>>

\* a cleanup whose offline broadcast is followed send by send, among joins and
\* leaves of other sessions
NextLeave ==
    \/ \E s \in Sockets, cid \in DOMAIN ConvRows, token \in Tokens : FanJoin(s, cid, token)
    \/ \E s \in Sockets : Drop(s)
    \/ \E s \in Sockets : FanLeave(s)
    \/ \E s \in Sockets : LeaveStart(s)
    \/ FanResume
    \/ \E s \in Sockets : LeaveEnd(s)

SpecLeave == Init /\ [][NextLeave]_vars

\* -------------------------------------------------------------- joins
\* a join whose sweep runs before its online broadcast
JoinSweepThenAnnounce(s, cid, token) ==
    /\ sess[s].pc = "init"
    /\ LET username == verify_websocket_token(token)
       IN  /\ username # None
           /\ UserOk(username)
           /\ FindConversation(cid, UserRows[username].id) # 0
           /\ LET uid == UserRows[username].id
                  reg1 == connect(active_connections, s, cid, uid)
                  b == send_to_conversation(reg1, cid,
                          [type |-> "user_status", user_id |-> uid, is_online |-> TRUE], s)
              IN  /\ online_users' = (uid :> now) @@ online_users
                  /\ active_connections' = b.reg
                  /\ messages' = Sweep(messages, cid, OtherUser(cid, uid))
                  /\ sess' = [sess EXCEPT ![s] = [pc |-> "joining", conv |-> cid, user |-> username]]
                  /\ out' = [Idle EXCEPT !.sends = b.rec]
    /\ UNCHANGED <<alive, now, ticks, conversations, fanout, inbox, store, requests>>

\* websocket_endpoint of an accepted join up to the end of its online
\* broadcast: the user is marked active, the connection registered and the
\* user_status event sent to the other connections; the store is not touched
JoinAnnounce(s, cid, token) ==
    /\ sess[s].pc = "init"
    /\ LET username == verify_websocket_token(token)
       IN  /\ username # None
           /\ UserOk(username)
           /\ FindConversation(cid, UserRows[username].id) # 0
           /\ LET uid == UserRows[username].id
                  reg1 == connect(active_connections, s, cid, uid)
                  b == send_to_conversation(reg1, cid,
                          [type |-> "user_status", user_id |-> uid, is_online |-> TRUE], s)
              IN  /\ online_users' = (uid :> now) @@ online_users
                  /\ active_connections' = b.reg
                  /\ sess' = [sess EXCEPT ![s] = [pc |-> "joining", conv |-> cid, user |-> username]]
                  /\ out' = [Idle EXCEPT !.sends = b.rec]
    /\ UNCHANGED <<messages, alive, now, ticks, conversations, fanout, inbox, store, requests>>

\* the rest of the join: the two bulk updates and their commit, then the
\* receive loop is entered
JoinSweep(s) ==
    /\ sess[s].pc = "joining"
    /\ messages' = Sweep(messages, sess[s].conv,
                         OtherUser(sess[s].conv, UserRows[sess[s].user].id))
    /\ sess' = [sess EXCEPT ![s].pc = "active"]
    /\ out' = Idle
    /\ UNCHANGED <<active_connections, online_users, alive, now, ticks, conversations, fanout, inbox, store, requests>>

\* joins followed step by step among the message events of other sessions
NextJoin ==
    \E s \in 1..MaxJoinSockets :
        \/ \E cid \in DOMAIN ConvRows, token \in Tokens : JoinAnnounce(s, cid, token)
        \/ JoinSweep(s)
        \/ Drop(s)
        \/ Disconnect(s)
        \/ \E exc \in Exceptions :
              /\ Len(messages) < MaxJoinMsgs
              /\ HandleMessage(s, <<" ", "h", " ">>, FALSE, TRUE, exc)

SpecJoin == Init /\ [][NextJoin]_vars

\* ------------------------------------------------------------- reads
\* message events with and without the encrypt flag, and reads of the history
\* and of the previews by a process started with any key
NextRead ==
    \/ \E s \in 1..MaxReadSockets :
          \/ \E cid \in DOMAIN ConvRows, token \in {"alice", "bob"} : Connect(s, cid, token)
          \/ \E is_encrypted \in BOOLEAN :
                /\ Len(messages) < MaxReadMsgs
                /\ HandleMessage(s, <<" ", "h", " ">>, is_encrypted, TRUE, "none")
    \/ \E u \in RestUsers, cid \in ConvIdInputs, key \in Keys : ReadMessages(u, cid, key)
    \/ \E u \in RestUsers, key \in Keys : ReadConversations(u, key)

SpecRead == Init /\ [][NextRead]_vars

\* sessions that come and go among the REST requests on conversations
NextRestPresence ==
    \/ \E s \in 1..MaxRestSockets :
          \/ \E cid \in DOMAIN ConvRows, token \in {"alice", "bob", "expired"} :
                Connect(s, cid, token)
          \/ /\ Len(messages) < MaxRestMsgs
             /\ HandleMessage(s, <<"h">>, FALSE, TRUE, "none")
          \/ Drop(s)
          \/ Disconnect(s)
    \/ \E u \in RestUsers : GetConversations(u)
    \/ \E u \in RestUsers, cid \in DOMAIN ConvRows : GetMessages(u, cid)
    \/ \E u \in RestUsers, uid \in UserIdInputs : GetOrCreateQueries(1, u, uid)
    \/ GetOrCreateCommit(1)
    \/ Tick(1)

SpecRestPresence == Init /\ [][NextRestPresence]_vars

\* joins and leaves of other sessions while a broadcast is suspended at a send
NextFanOut ==
    \/ \E s \in Sockets, cid \in DOMAIN ConvRows, token \in Tokens : FanJoin(s, cid, token)
    \/ \E s \in Sockets : Drop(s)
    \/ \E s \in Sockets : FanLeave(s)
    \/ \E s \in Sockets : FanStart(s)
    \/ FanResume

SpecFanOut == Init /\ [][NextFanOut]_vars

\* ------------------------------------------------------------ vocabulary
MembersIn(reg, c) == IF c \in DOMAIN reg THEN DOMAIN reg[c] ELSE {}
Members(c) == MembersIn(active_connections, c)
Registered(w) == \E c \in DOMAIN active_connections : w \in DOMAIN active_connections[c]
UserId(s) == UserRows[sess[s].user].id
MessageIds == 0..(MaxStatusMsgs + 1)
\* the order SENT < DELIVERED < READ the status claims speak of
Rank(st) == CASE st = SENT -> 0 [] st = DELIVERED -> 1 [] st = READ -> 2

\* C1: over every step, no message's stored status decreases in the order
\* SENT < DELIVERED < READ.
C1_StatusNeverDecreases ==
    [][\A i \in DOMAIN messages :
          Rank(messages'[i].status) >= Rank(messages[i].status)]_vars

\* C2: a registered, live connection whose N registered peers are all live
\* sends one 'message' event with non-empty content: the broadcast delivers the
\* message to exactly those N peers and not to the sender, and the sender gets
\* exactly one personal echo of the same payload.
C2_MessageFanOut ==
    [][\A s \in Sockets :
        (/\ Len(messages') > Len(messages)
         /\ sess[s].pc = "active"
         /\ s \in Members(sess[s].conv)
         /\ Members(sess[s].conv) \subseteq alive) =>
        \A text \in Contents, exc \in Exceptions :
          (Strip(text) # << >> /\ ReceiveMessage(s, text, exc))
          => /\ Len(out'.sends) = 2
             /\ out'.sends[1].kind = "broadcast"
             /\ out'.sends[1].ev.type = "message"
             /\ out'.sends[1].to = Members(sess[s].conv) \ {s}
             /\ out'.sends[1].failed = {}
             /\ out'.sends[2].kind = "personal"
             /\ out'.sends[2].to = {s}
             /\ out'.sends[2].ev = out'.sends[1].ev]_vars

\* a message was just broadcast to two peers and echoed to its sender
C2_Witness ==
    /\ Len(out.sends) = 2
    /\ out.sends[1].kind = "broadcast"
    /\ out.sends[1].ev.type = "message"
    /\ Cardinality(out.sends[1].to) = 2
    /\ out.sends[2].kind = "personal"
    /\ Cardinality(out.sends[2].to) = 1
    /\ out.sends[2].to \cap out.sends[1].to = {}

\* C3: a connection whose session has ended by disconnect is registered under
\* no conversation, and no broadcast made at or after its disconnect (the
\* offline presence event first) is sent to it.
C3_DisconnectedNeverReached ==
    \A s \in Sockets :
        sess[s].pc = "closed" =>
            /\ ~Registered(s)
            /\ \A i \in DOMAIN out.sends :
                  out.sends[i].kind = "broadcast" =>
                      s \notin out.sends[i].to \cup out.sends[i].failed

\* a connection has disconnected and the offline event reached a remaining one
C3_Witness ==
    \E s \in Sockets, i \in DOMAIN out.sends :
        /\ sess[s].pc = "closed"
        /\ out.sends[i].kind = "broadcast"
        /\ out.sends[i].ev.type = "user_status"
        /\ ~out.sends[i].ev.is_online
        /\ out.sends[i].to # {}
        /\ out.sends[i].to = Members(out.sends[i].conv)

\* the conversation of the handler that runs for socket s in this step
HandlerConv(s) == IF sess[s].pc = "init" THEN sess'[s].conv ELSE sess[s].conv

\* the steps of socket s's handler that broadcast
Broadcasts(s) ==
    \/ /\ sess[s].pc = "init"
       /\ sess'[s].pc = "active"
       /\ \E cid \in ConvIdInputs, token \in Tokens : Connect(s, cid, token)
    \/ Disconnect(s)
    \/ /\ Len(messages') > Len(messages)
       /\ \E text \in Contents, exc \in Exceptions : ReceiveMessage(s, text, exc)
    \/ /\ UNCHANGED <<messages, sess, online_users>>
       /\ \E is_typing \in BOOLEAN : ReceiveTyping(s, is_typing)
    \/ /\ UNCHANGED <<sess, online_users>>
       /\ \E message_id \in MessageIds, new_status \in StatusInputs :
             ReceiveStatusUpdate(s, message_id, new_status)

\* broadcast record r, made for conversation c by the handler of socket actor,
\* reached every live peer, failed on every dead one, and left no failed one
\* registered
BroadcastTolerant(c, actor, r, after) ==
    LET members == Members(c) \ {actor}
    IN  /\ r.kind = "broadcast"
        /\ r.conv = c
        /\ r.to = members \cap alive
        /\ r.failed = members \ alive
        /\ \A w \in r.failed : w \notin MembersIn(after, c)

\* C8: in every broadcast, a failed send to one registered connection does not
\* stop the others: every other non-excluded registered connection is attempted
\* and receives the event if live, and every connection whose send failed is
\* unregistered when the handler's step ends.
C8_BroadcastToleratesFailure ==
    [][\A s \in Sockets :
          (/\ out'.sends # << >>
           /\ out'.sends[1].kind = "broadcast"
           /\ out'.sends[1].exclude \in {s, NoSock}
           /\ sess[s].pc \in {"init", "active"}
           /\ Broadcasts(s))
          => BroadcastTolerant(HandlerConv(s), s, out'.sends[1],
                               active_connections')]_vars

\* one broadcast both failed on a dead connection and reached a live one
C8_Witness ==
    /\ out.sends # << >>
    /\ out.sends[1].kind = "broadcast"
    /\ out.sends[1].failed # {}
    /\ out.sends[1].to # {}
    /\ out.sends[1].failed \cap Members(out.sends[1].conv) = {}

\* credentials that are missing or malformed, expired, of no user, of an
\* inactive user
BadCredentials == {"nosub", "expired", "ghost", "dave"}

\* a session that was closed stays closed and unregistered
ClosedForGood ==
    \A s \in Sockets :
        sess[s].pc = "closed" => sess'[s].pc = "closed" /\ ~Registered(s)'

\* C9: a connect with a missing, invalid or expired credential, or one that
\* resolves to no user or to an inactive user, is closed with the
\* policy-violation code, registers nothing, touches neither the presence map
\* nor any message status, sends nothing, and the session goes nowhere else.
C9_BadCredentialRejected ==
    [][/\ \A s \in Sockets :
             (sess[s].pc = "init" /\ sess'[s].pc # "init") =>
                \A cid \in ConvIdInputs, token \in BadCredentials :
                   Connect(s, cid, token)
                   => /\ out'.close = WS_1008_POLICY_VIOLATION
                      /\ out'.sends = << >>
                      /\ sess'[s].pc = "closed"
                      /\ ~Registered(s)'
                      /\ UNCHANGED <<active_connections, online_users, messages>>
       /\ ClosedForGood]_vars

\* a session was just closed for its credential
C9_Witness ==
    /\ out.close = WS_1008_POLICY_VIOLATION
    /\ out.reason \in {"Invalid or expired token", "User not found or inactive"}
    /\ \E s \in Sockets : sess[s].pc = "closed" /\ ~Registered(s)

\* the active user named by token is no participant of conversation cid, or
\* cid names no conversation
NotParticipant(token, cid) ==
    \/ cid \notin DOMAIN ConvRows
    \/ UserRows[token].id \notin {ConvRows[cid].user1_id, ConvRows[cid].user2_id}

\* C10: a connect of an authenticated, active user to a conversation he is no
\* participant of, or that does not exist, is closed with the policy-violation
\* code: nothing is registered, the user is not marked active, no message
\* status changes and nothing is sent.
C10_NonParticipantRejected ==
    [][\A s \in Sockets :
          (sess[s].pc = "init" /\ sess'[s].pc # "init") =>
             \A cid \in ConvIdInputs, token \in RestUsers :
                (NotParticipant(token, cid) /\ Connect(s, cid, token))
                => /\ out'.close = WS_1008_POLICY_VIOLATION
                   /\ out'.sends = << >>
                   /\ sess'[s].pc = "closed"
                   /\ ~Registered(s)'
                   /\ UNCHANGED <<active_connections, online_users, messages>>]_vars

\* a session of an authenticated user was just closed at the participant check
C10_Witness ==
    /\ out.close = WS_1008_POLICY_VIOLATION
    /\ out.reason = ""
    /\ \E s \in Sockets : sess[s].pc = "closed" /\ ~Registered(s)

\* the answers of a conversation list, when out.resp holds one
OnlineAnswers == {out.resp[c] : c \in DOMAIN out.resp}

\* C4: right after the disconnect of a connection of user u has been handled,
\* the presence map holds no entry for u, whatever the clock shows; and the
\* online answer for a user without an entry is false.
C4_OfflineAfterDisconnect ==
    [][/\ \A s \in Sockets :
             (sess[s].pc = "active" /\ sess'[s].pc = "closed" /\ Disconnect(s))
             => UserId(s) \notin DOMAIN online_users'
       /\ \A u \in RestUsers :
             (out'.resp # << >> /\ GetConversations(u))
             => \A a \in OnlineAnswers' :
                   a.other_user_id \notin DOMAIN online_users
                   => ~a.other_user_online]_vars

\* a user has just gone offline, some time after connecting, while the peer
\* that was told stays registered
C4_Witness ==
    /\ ticks > 0
    /\ out.sends # << >>
    /\ out.sends[1].ev.type = "user_status"
    /\ ~out.sends[1].ev.is_online
    /\ out.sends[1].to # {}
    /\ out.sends[1].ev.user_id \notin DOMAIN online_users

\* C5: the online answer for user u is true exactly when the presence map
\* holds an entry for u whose timestamp T satisfies now - T < 30; no entry, or
\* now - T >= 30 (30 included), answers false.
C5_OnlineIffFresh ==
    [][\A u \in RestUsers :
          (out'.resp # << >> /\ GetConversations(u))
          => \A a \in OnlineAnswers' :
                a.other_user_online <=>
                    /\ a.other_user_id \in DOMAIN online_users
                    /\ now - online_users[a.other_user_id] < 30]_vars

\* an answer 'offline' for an entry that is exactly 30 seconds old
C5_Witness ==
    \E a \in OnlineAnswers :
        /\ ~a.other_user_online
        /\ a.other_user_id \in DOMAIN online_users
        /\ now - online_users[a.other_user_id] = 30

\* message_id names no message of conversation c: no message at all, a
\* message of another conversation, or a room message
ForeignMessage(message_id, c) ==
    \/ message_id \notin DOMAIN messages
    \/ messages[message_id].conversation_id # c

\* C6: a status_update received on a connection of conversation c that names
\* a message of another conversation, or no message, changes no message,
\* sends nothing, and leaves the session active.
C6_ForeignStatusUpdateIgnored ==
    [][\/ /\ messages' = messages
          /\ out'.sends = << >>
          /\ UNCHANGED <<sess, active_connections, online_users>>
       \/ \A s \in Sockets :
             sess[s].pc = "active" =>
                \A message_id \in MessageIds :
                   ForeignMessage(message_id, sess[s].conv) =>
                      \A new_status \in StatusInputs :
                         ~ReceiveStatusUpdate(s, message_id, new_status)]_vars

\* a live session of one conversation, an unread message of the other
\* conversation and an unread room message, and the last handler changed and
\* sent nothing
C6_Witness ==
    \E s \in Sockets, m, r \in DOMAIN messages :
        /\ sess[s].pc = "active"
        /\ s \in alive
        /\ messages[m].conversation_id \in DOMAIN ConvRows \ {sess[s].conv}
        /\ messages[m].status = SENT
        /\ messages[r].conversation_id = 0
        /\ messages[r].status = SENT
        /\ out = Idle

\* socket s joins conversation cid in this step as a user whose peer has SENT
\* messages there and a live registered connection
JoinWithBacklog(s, cid) ==
    /\ sess[s].pc = "init"
    /\ sess'[s].pc = "active"
    /\ sess'[s].conv = cid
    /\ \E token \in Tokens : Connect(s, cid, token)
    /\ \E m \in DOMAIN messages :
          /\ messages[m].conversation_id = cid
          /\ messages[m].sender_id = OtherUser(cid, UserRows[sess'[s].user].id)
          /\ messages[m].status = SENT
    /\ \E a \in Members(cid) \cap alive :
          active_connections[cid][a] = OtherUser(cid, UserRows[sess'[s].user].id)

\* the peer's SENT messages of conversation cid, seen from socket s joining
Backlog(s, cid) ==
    {m \in DOMAIN messages :
        /\ messages[m].conversation_id = cid
        /\ messages[m].sender_id = OtherUser(cid, UserRows[sess'[s].user].id)
        /\ messages[m].status = SENT}

\* the live registered connections of the peer
PeerSockets(s, cid) ==
    {a \in Members(cid) \cap alive :
        active_connections[cid][a] = OtherUser(cid, UserRows[sess'[s].user].id)}

SessionEnds(s) == sess[s].pc = "active" /\ sess'[s].pc # "active"

\* the 'message' events among the sends of the last handler
MessageEvents(o) == {i \in DOMAIN o.sends : o.sends[i].ev.type = "message"}

\* C11: every 'message' event a handler sends, by broadcast or by echo, names
\* a record that is in the messages table when the handler's step ends, with
\* the event's sender and conversation; an attempt whose commit failed sends
\* no message event.
C11_PersistThenBroadcast ==
    \A i \in MessageEvents(out) :
        LET ev == out.sends[i].ev
        IN  /\ ev.id \in DOMAIN messages
            /\ messages[ev.id].sender_id = ev.sender_id
            /\ messages[ev.id].conversation_id = ev.conversation_id
            /\ messages[ev.id].status = SENT

\* an encrypted message was persisted, broadcast to a peer and echoed
C11_Witness ==
    /\ Len(out.sends) = 2
    /\ out.sends[1].kind = "broadcast"
    /\ out.sends[1].ev.type = "message"
    /\ out.sends[1].ev.is_encrypted
    /\ out.sends[1].to # {}
    /\ out.sends[2].kind = "personal"
    /\ out.sends[2].to # {}
    /\ out.sends[1].ev.id = Len(messages)

\* C12: an inbound text that cannot be parsed leaves the session Active and its
\* connection registered as before, ready for the next event.
C12_MalformedIgnored ==
    [][\A s \in Sockets :
          (sess[s].pc = "active" /\ ReceiveMalformed(s))
          => /\ sess'[s] = sess[s]
             /\ MembersIn(active_connections', sess[s].conv)
                    = MembersIn(active_connections, sess[s].conv)]_vars

\* C13: whenever a session that was Active ends, by disconnect or by an error
\* raised while an event is processed, its connection is in no bucket of the
\* registry and its user has no presence entry.
C13_CleanupUnconditional ==
    [][\A s \in Sockets :
          SessionEnds(s)
          => /\ \A c \in DOMAIN active_connections' :
                    s \notin DOMAIN active_connections'[c]
             /\ UserId(s) \notin DOMAIN online_users']_vars

\* C18: a 'message' event whose content is absent, empty or whitespace only
\* creates no record, leaves last_message_at, the registry and the presence map
\* as they were, sends nothing, and leaves the session Active.
C18_EmptyContentDropped ==
    [][\/ /\ UNCHANGED <<messages, conversations, active_connections,
                        online_users, sess, alive>>
          /\ out' = Idle
       \/ \A s \in Sockets :
            sess[s].pc = "active" =>
            \A text \in Contents :
              Strip(text) = << >> =>
              \A is_encrypted \in BOOLEAN, commit_ok \in BOOLEAN, exc \in Exceptions :
                ~HandleMessage(s, text, is_encrypted, commit_ok, exc)]_vars

\* a whitespace-only message was just dropped on an active session while the
\* clock had moved past the conversation's last message
C18_Witness ==
    /\ out = Idle
    /\ \E s \in Sockets :
          /\ sess[s].pc = "active"
          /\ s \in alive
          /\ now > conversations[sess[s].conv].last_message_at
          /\ Len(messages) > 0

\* the step is an accepted 'message' event of socket s with content field text
Accepted(s, text, is_encrypted) ==
    /\ Len(messages') > Len(messages)
    /\ \E commit_ok \in BOOLEAN, exc \in Exceptions :
          HandleMessage(s, text, is_encrypted, commit_ok, exc)

\* every message event sent in this step carries content c, the id of the
\* record just persisted and status 'sent', and all of them are one payload
PayloadCarries(c) ==
    /\ MessageEvents(out') # {}
    /\ \A i, j \in MessageEvents(out') : out'.sends[i].ev = out'.sends[j].ev
    /\ \E i \in MessageEvents(out') : out'.sends[i].kind = "personal"
    /\ \A i \in MessageEvents(out') :
          /\ out'.sends[i].ev.content = c
          /\ out'.sends[i].ev.id = Len(messages')
          /\ out'.sends[i].ev.status = "sent"

\* C20 as stated: the echoed payload equals the broadcast payload and carries
\* the content exactly as submitted, the persisted record's id and status 'sent'.
C20_PayloadCarriesSubmitted ==
    [][\A s \in Sockets :
          (sess[s].pc = "active" /\ Len(messages') > Len(messages)) =>
          \A text \in Contents, is_encrypted \in BOOLEAN :
              Accepted(s, text, is_encrypted) => PayloadCarries(text)]_vars

\* C20 amended: the echoed payload equals the broadcast payload and carries the
\* submitted content with leading and trailing whitespace removed, in plaintext
\* also when the encrypt flag is set, the persisted record's id and status 'sent'.
C20_PayloadCarriesStripped ==
    [][\A s \in Sockets :
          (sess[s].pc = "active" /\ Len(messages') > Len(messages)) =>
          \A text \in Contents, is_encrypted \in BOOLEAN :
              Accepted(s, text, is_encrypted) => PayloadCarries(Strip(text))]_vars

\* an encrypted message is stored as ciphertext and was just broadcast and
\* echoed in plaintext
C20_Witness ==
    /\ Len(out.sends) = 2
    /\ out.sends[1].kind = "broadcast"
    /\ out.sends[1].ev.type = "message"
    /\ out.sends[1].to # {}
    /\ out.sends[2].kind = "personal"
    /\ out.sends[2].ev = out.sends[1].ev
    /\ out.sends[2].ev.is_encrypted
    /\ out.sends[2].ev.content = <<"h">>
    /\ messages[out.sends[2].ev.id].content # <<"h">>

\* C14: when the cleanup of a connection has run, running its registry removal
\* and its presence removal again raises nothing and leaves the registry and
\* the presence map as the first run left them; the first run raises nothing
\* either, also for a connection a broadcast had pruned.
C14_CleanupIdempotent ==
    [][\A s \in Sockets :
          (sess[s].pc = "active" /\ sess'[s].pc = "closed") =>
          LET cid == sess[s].conv
              uid == UserId(s)
          IN  /\ ~disconnectRaises(active_connections, s, cid)
              /\ ~mark_offlineRaises(online_users, uid)
              /\ ~disconnectRaises(active_connections', s, cid)
              /\ disconnect(active_connections', s, cid) = active_connections'
              /\ ~mark_offlineRaises(online_users', uid)
              /\ mark_offline(online_users', uid) = online_users']_vars

\* a cleanup has run while another connection stays registered and another
\* user stays present: the second run has a registry and a presence map to spoil
C14_Witness ==
    \E s \in Sockets :
        /\ sess[s].pc = "closed"
        /\ out.sends # << >>
        /\ out.sends[1].ev.type = "user_status"
        /\ ~out.sends[1].ev.is_online
        /\ out.sends[1].conv \in DOMAIN active_connections
        /\ active_connections[out.sends[1].conv] # << >>
        /\ online_users # << >>

\* C15: every conversation id that is a key of the registry maps to at least
\* one connection.
C15_NoEmptyBucket ==
    \A c \in DOMAIN active_connections : DOMAIN active_connections[c] # {}

Max(a, b) == IF a >= b THEN a ELSE b

\* the step is an explicit status_update of socket s that names message m of
\* its conversation with target st
ExplicitUpdate(s, m, st) ==
    /\ sess[s].pc = "active"
    /\ StatusUpdateApplies(m, st, sess[s].conv)
    /\ ReceiveStatusUpdate(s, m, st)

\* C16: an explicit status_update leaves the message at the higher of its
\* stored status and the requested one, so that with a sweep to READ run before
\* or after it the message ends in READ.
C16_HighestStatusWins ==
    [][\A s \in Sockets, m \in DOMAIN messages, st \in {"delivered", "read"} :
          ExplicitUpdate(s, m, st)
          => Rank(messages'[m].status) = Max(Rank(messages[m].status), Rank(st))]_vars

\* C19: an explicit status_update whose target is not above the stored status
\* leaves the stored status as it is and delivers no status-update event; a
\* status-update event is delivered only when the stored status changed.
C19_NoOpUpdateSilent ==
    [][\A s \in Sockets, m \in DOMAIN messages, st \in {"delivered", "read"} :
          ExplicitUpdate(s, m, st)
          => /\ Rank(st) <= Rank(messages[m].status) => messages' = messages
             /\ messages' = messages =>
                  \A i \in DOMAIN out'.sends :
                      out'.sends[i].ev.type = "status_update" => out'.sends[i].to = {}]_vars

NoRepeat(q) == \A i, j \in DOMAIN q : i # j => q[i] # q[j]

\* C17: a broadcast during whose sends other sessions join or leave its
\* conversation raises no error, delivers the event to no connection twice and
\* prunes no connection twice.
C17_ConcurrentFanOutSafe ==
    /\ fanout.error = "none"
    /\ NoRepeat(fanout.delivered)
    /\ NoRepeat(fanout.pruned)

\* users that hold at least one registered connection
ConnectedUsers ==
    UNION {{active_connections[c][w] : w \in DOMAIN active_connections[c]} :
              c \in DOMAIN active_connections}

\* C23: a user with zero registered connections has no entry in the presence
\* map.
C23_NoConnectionNoPresence ==
    \A uid \in DOMAIN online_users : uid \in ConnectedUsers

\* C28: every change of a stored message status is SENT to DELIVERED or
\* DELIVERED to READ; no message goes from SENT to READ in one committed change.
C28_NoSkipToRead ==
    [][\A i \in DOMAIN messages :
          \/ messages'[i].status = messages[i].status
          \/ messages[i].status = SENT /\ messages'[i].status = DELIVERED
          \/ messages[i].status = DELIVERED /\ messages'[i].status = READ]_vars

\* the step changed only rows of channel ch (a conversation when kind is
\* "conversation_id", a room when it is "room_id") authored by someone other
\* than uid, only their status and only to READ, and left no such row below READ
SweptBy(kind, ch, uid) ==
    /\ Len(messages') = Len(messages)
    /\ \A i \in DOMAIN messages :
          messages'[i] # messages[i]
          => /\ messages[i][kind] = ch
             /\ messages[i].sender_id # uid
             /\ messages'[i] = [messages[i] EXCEPT !.status = READ]
    /\ \A i \in DOMAIN messages' :
          messages'[i][kind] = ch /\ messages'[i].sender_id # uid
          => messages'[i].status = READ

\* C27: a bulk sweep run for actor u on a conversation (on connect or on
\* reading its history) or on a room changes only messages of that channel
\* authored by someone other than u, leaves every other message as it was, and
\* leaves no message of the channel authored by another user SENT or DELIVERED.
C27_SweepFrame ==
    [][/\ \A s \in Sockets :
             sess[s].pc = "init" /\ sess'[s].pc = "active"
             => \/ SweptBy("conversation_id", sess'[s].conv, UserRows[sess'[s].user].id)
                \/ \A cid \in ConvIdInputs, token \in Tokens : ~Connect(s, cid, token)
       /\ \A u \in RestUsers, cid \in ConvIdInputs :
             RestFindConversation(cid, UserRows[u].id) # 0
             => \/ SweptBy("conversation_id", cid, UserRows[u].id)
                \/ ~GetMessages(u, cid)
       /\ \A u \in RestUsers, rid \in RoomIdInputs :
             /\ rid \in DOMAIN RoomRows
             /\ [room_id |-> rid, user_id |-> UserRows[u].id] \in RoomMemberRows
             => \/ SweptBy("room_id", rid, UserRows[u].id)
                \/ ~GetRoomMessages(u, rid)]_vars

\* a sweep has run for one participant of a conversation that holds messages
\* of both participants: the other's message is READ, the actor's own is not
C27_Witness ==
    /\ out = Idle
    /\ \E i, j \in DOMAIN messages :
          /\ messages[i].conversation_id = messages[j].conversation_id
          /\ messages[i].conversation_id # 0
          /\ messages[i].sender_id # messages[j].sender_id
          /\ messages[i].status = READ
          /\ messages[j].status = SENT

\* what a typing event of socket s may do: no stored row, presence entry or
\* session changes, and every delivery is a typing event of the conversation
\* of s sent to registered peers of that conversation, never to s
TypingFrame(s) ==
    /\ UNCHANGED <<messages, conversations, online_users, sess>>
    /\ out'.close = 0
    /\ \A i \in DOMAIN out'.sends :
          /\ out'.sends[i].ev.type = "typing"
          /\ out'.sends[i].conv = sess[s].conv
          /\ s \notin out'.sends[i].to
          /\ out'.sends[i].to \subseteq Members(sess[s].conv)
    /\ Members(sess[s].conv) \subseteq {s}
       => \A i \in DOMAIN out'.sends : out'.sends[i].to = {}

\* C29: a 'typing' event changes no stored state and no presence entry, is
\* delivered only to the other connections of the same conversation, and with
\* no peer connected is dropped while the session stays active.
C29_TypingFrame ==
    [][\A s \in Sockets :
          sess[s].pc = "active"
          => (TypingFrame(s) \/ \A is_typing \in BOOLEAN : ~ReceiveTyping(s, is_typing))]_vars

\* a typing event reached a peer while another conversation had a connection
C29_Witness ==
    /\ \E i \in DOMAIN out.sends :
          /\ out.sends[i].ev.type = "typing"
          /\ out.sends[i].to # {}
    /\ Cardinality(DOMAIN active_connections) > 1

\* C30: an inbound event whose type is none of message, typing and
\* status_update, or that has no type, changes neither the registry, the
\* presence map nor any message, produces no outbound event and leaves the
\* session active.
C30_UnknownTypeIgnored ==
    [][\A s \in Sockets :
          sess[s].pc = "active"
          => \/ /\ UNCHANGED <<active_connections, online_users, messages,
                               conversations, sess, alive>>
                /\ out' = Idle
             \/ \A type \in EventTypes \ {"message", "typing", "status_update"} :
                   ~ReceiveBare(s, type)]_vars

\* an active session with a registered peer and a stored message is idle after
\* an event that produced nothing
C30_Witness ==
    /\ out = Idle
    /\ messages # << >>
    /\ \E s \in Sockets :
          /\ sess[s].pc = "active"
          /\ Members(sess[s].conv) \ {s} # {}

\* positions i < j of the inbox of w that hold events produced by the same
\* connection
SameSender(w, i, j) ==
    /\ i < j
    /\ inbox[w][i].from = inbox[w][j].from

ResponseItems == {out.resp[k] : k \in DOMAIN out.resp}

\* C24: the content shown for an encrypted message whose stored content could
\* not be decoded is a placeholder, never the raw stored blob.
C24_DecodeFailureShowsPlaceholder ==
    \A item \in ResponseItems :
        item.is_encrypted => item.content # messages[item.id].content

\* the online events of the last step that reached a connection
OnlineDeliveries ==
    {i \in DOMAIN out.sends :
        /\ out.sends[i].ev.type = "user_status"
        /\ out.sends[i].ev.is_online
        /\ out.sends[i].to # {}}

\* the messages of conversation c authored by the other participant than uid
\* that are not READ
Unread(msgs, c, uid) ==
    {m \in DOMAIN msgs :
        /\ msgs[m].conversation_id = c
        /\ msgs[m].sender_id = OtherUser(c, uid)
        /\ msgs[m].status # READ}

\* C25 as stated: when a peer receives the online event of a join, the
\* messages the join sweeps are already READ in the store.
C25_SweptBeforeOnline ==
    \A i \in OnlineDeliveries :
        Unread(messages, out.sends[i].conv, out.sends[i].ev.user_id) = {}

\* C25, amended: a successful join first marks the user active, registers the
\* connection and broadcasts the online event to the other connections of the
\* conversation, never to the new one, with the store untouched; the sweep is
\* applied after that, sends nothing, and leaves the other participant's
\* messages READ when the session becomes active.
C25_OnlineBeforeSweep ==
    [][\A s \in Sockets :
          /\ sess[s].pc = "init" /\ sess'[s].pc # "init" /\ sess'[s].pc # "closed"
             => /\ sess'[s].pc = "joining"
                /\ messages' = messages
                /\ UserRows[sess'[s].user].id \in DOMAIN online_users'
                /\ s \in MembersIn(active_connections', sess'[s].conv)
                /\ \A i \in DOMAIN out'.sends :
                      /\ out'.sends[i].ev.type = "user_status"
                      /\ out'.sends[i].ev.is_online
                      /\ out'.sends[i].conv = sess'[s].conv
                      /\ s \notin out'.sends[i].to
                      /\ out'.sends[i].to =
                            (MembersIn(active_connections, sess'[s].conv) \cap alive) \ {s}
          /\ sess[s].pc = "joining" /\ sess'[s].pc # "joining"
             => /\ sess'[s].pc = "active"
                /\ out' = Idle
                /\ Unread(messages', sess[s].conv, UserRows[sess[s].user].id) = {}
                /\ UNCHANGED <<active_connections, online_users>>]_vars

\* a peer has received the online event of a join whose sweep has not run: a
\* message of the peer is still SENT
C25_Witness ==
    \E s \in Sockets :
        /\ sess[s].pc = "joining"
        /\ \E i \in OnlineDeliveries : out.sends[i].conv = sess[s].conv
        /\ \E m \in Unread(messages, sess[s].conv, UserRows[sess[s].user].id) :
              messages[m].status = SENT

\* the sockets a send of the running broadcast was completed or failed on
Attempted(f) ==
    {f.delivered[i] : i \in DOMAIN f.delivered}
        \cup {f.disconnected[i] : i \in DOMAIN f.disconnected}

Unattempted(f) ==
    (IterKeys(f, active_connections) \ f.visited) \ {f.exclude}

\* C22: while the send to one peer has not completed, the delivery of the same
\* event to the other peers can proceed: a step exists that starts the send to
\* another target and leaves the pending send pending.
C22_FireAndForget ==
    fanout.pc = "send" /\ Unattempted(fanout) # {}
    => ENABLED (/\ NextFanOut
                /\ fanout.cur \notin Attempted(fanout')
                /\ fanout'.visited # fanout.visited)

\* the state of the session state machine a handler position stands for: a
\* handler ended by an uncaught exception is Closed
Phase(pc) ==
    CASE pc = "init" -> "Authenticating"
      [] pc = "joining" -> "Joining"
      [] pc \in {"active", "leaving"} -> "Active"
      [] OTHER -> "Closed"

\* the moves of the session state machine
PhaseMoves ==
    {<<"Authenticating", "Joining">>, <<"Authenticating", "Active">>,
     <<"Joining", "Active">>, <<"Authenticating", "Closed">>,
     <<"Joining", "Closed">>, <<"Active", "Closed">>}

\* C31: a session moves only along Authenticating, Joining, Active, Closed,
\* never leaves Closed, and its connection is in the registry only while the
\* session is Active.
C31_RegisteredOnlyWhileActive ==
    [][\A s \in Sockets :
          /\ Phase(sess[s].pc) # Phase(sess'[s].pc)
             => <<Phase(sess[s].pc), Phase(sess'[s].pc)>> \in PhaseMoves
          /\ Registered(s)' => Phase(sess'[s].pc) = "Active"]_vars

\* C36: a user who has a registered connection has an entry in the presence
\* map; closing one of a user's connections leaves the entry while another
\* connection of that user is registered.
C36_ConnectedHasPresence ==
    \A uid \in ConnectedUsers : uid \in DOMAIN online_users

\* the two participants of conversation c
Participants(c) == {ConvRows[c].user1_id, ConvRows[c].user2_id}

\* C35: every connection registered under a conversation is tagged with one of
\* its two participants, and every event of a conversation is delivered only
\* to connections tagged with its participants.
C35_OnlyParticipantsRegistered ==
    /\ \A c \in DOMAIN active_connections :
          /\ c \in DOMAIN ConvRows
          /\ \A w \in DOMAIN active_connections[c] :
                active_connections[c][w] \in Participants(c)
    /\ \A i \in DOMAIN out.sends :
          \A w \in out.sends[i].to :
              /\ sess[w].pc = "active"
              /\ sess[w].conv = out.sends[i].conv
              /\ UserId(w) \in Participants(out.sends[i].conv)

\* an event reached a peer while connections of both conversations were
\* registered
C35_Witness ==
    /\ Cardinality(DOMAIN active_connections) > 1
    /\ \E i \in DOMAIN out.sends :
          /\ out.sends[i].to # {}
          /\ out.sends[i].ev.type \in {"message", "user_status"}

\* C37: an explicit status_update changes the stored status of a message only
\* when it comes from a connection of a user other than the author.
C37_AuthorNeverAdvancesOwn ==
    [][\A s \in Sockets, m \in DOMAIN messages, st \in {"delivered", "read"} :
          ExplicitUpdate(s, m, st) /\ messages'[m].status # messages[m].status
          => UserId(s) # messages[m].sender_id]_vars

\* the step is a sweep run for a user other than the author of message i, on
\* the conversation or room of i
SweepByOther(i) ==
    \/ \E s \in Sockets :
          /\ sess[s].pc = "init"
          /\ sess'[s].pc = "active"
          /\ sess'[s].conv = messages[i].conversation_id
          /\ UserRows[sess'[s].user].id # messages[i].sender_id
    \/ \E u \in RestUsers :
          /\ UserRows[u].id # messages[i].sender_id
          /\ \/ GetMessages(u, messages[i].conversation_id)
             \/ GetRoomMessages(u, messages[i].room_id)

\* C33: a message is created in status SENT, its creation changes no other
\* message, and its status changes only in a sweep run for another user or in
\* an explicit status_update that names it.
C33_StartsSent ==
    [][/\ Len(messages') > Len(messages)
          => /\ Len(messages') = Len(messages) + 1
             /\ messages'[Len(messages')].status = SENT
             /\ \A i \in DOMAIN messages : messages'[i] = messages[i]
       /\ \A i \in DOMAIN messages :
             messages'[i].status # messages[i].status
             => \/ SweepByOther(i)
                \/ \E s \in Sockets, st \in {"delivered", "read"} :
                      ReceiveStatusUpdate(s, i, st)]_vars

\* a room message was created after a conversation message had been marked
\* delivered: the new one is SENT, the older one is as it was
C33_Witness ==
    \E i, j \in DOMAIN messages :
        /\ i < j
        /\ messages[i].conversation_id # 0
        /\ messages[i].status = DELIVERED
        /\ messages[j].room_id # 0
        /\ messages[j].status = SENT

\* user uid is a participant of conversation c
IsParticipant(c, uid) == uid \in Participants(c)

\* C34: after the REST read of a conversation by u the unread count reported
\* to u for it is 0, and it stays 0 until a new message arrives.
C34_UnreadZeroAfterRead ==
    [][\A u \in RestUsers, c \in DOMAIN ConvRows :
          IsParticipant(c, UserRows[u].id)
          => /\ GetMessages(u, c) => unread_count(messages', c, UserRows[u].id) = 0
             /\ unread_count(messages, c, UserRows[u].id) = 0
                /\ Len(messages') = Len(messages)
                => unread_count(messages', c, UserRows[u].id) = 0]_vars

\* C38: there is at most one membership row for each room and user.
C38_OneMembershipPerUser ==
    \A rid \in DOMAIN store.rooms, uid \in UserIdInputs :
        Cardinality(MemberRows(store, rid, uid)) <= 1

\* C40: there is at most one conversation for each unordered pair of distinct
\* users, and no conversation of a user with themselves.
C40_OneConversationPerPair ==
    /\ \A a, b \in UserIdInputs \cup {4} : Cardinality(ConversationsOf(store, a, b)) <= 1
    /\ \A c \in DOMAIN store.conv_rows :
          store.conv_rows[c].user1_id # store.conv_rows[c].user2_id

\* the users with a membership row in room rid
MembersOfRoom(st, rid) ==
    {st.room_members[i].user_id :
        i \in {j \in DOMAIN st.room_members : st.room_members[j].room_id = rid}}

\* the requester on whose behalf the step changed the membership rows: the
\* user of the committing thread, or the caller of the remove or create request
\* the step is
ChangedFor(uid) ==
    \/ \E t \in Threads : requests[t].user = uid /\ AddMemberCommit(t)
    \/ \E u \in RestUsers :
          /\ UserRows[u].id = uid
          /\ \/ create_room(u)
             \/ \E rid \in RoomIdInputs, target \in UserIdInputs :
                   remove_member_from_room(u, rid, target)

\* C39: the creator of a room is a member of it in every state, and the
\* membership rows of a room change only in a request of its creator.
C39_CreatorStaysMember ==
    [][\A rid \in DOMAIN store'.rooms :
          /\ store'.rooms[rid].creator_id \in MembersOfRoom(store', rid)
          /\ rid \in DOMAIN store.rooms
             => /\ store'.rooms[rid] = store.rooms[rid]
                /\ MembersOfRoom(store', rid) # MembersOfRoom(store, rid)
                   => ChangedFor(store.rooms[rid].creator_id)]_vars

\* a room made by a request has a second member, a remove request naming its
\* creator was just refused
C39_Witness ==
    /\ out.reason = "Cannot remove the room creator"
    /\ \E rid \in DOMAIN store.rooms :
          /\ rid \notin DOMAIN RoomRows
          /\ Cardinality(MembersOfRoom(store, rid)) > 1

\* C32: a presence entry is created or refreshed only in a step in which a
\* session of that user becomes active, and deleted only in a step in which a
\* session of that user is closed; the REST requests, which change no session,
\* leave the presence map as it is.
C32_PresenceOnlyByRealtime ==
    [][/\ \A uid \in DOMAIN online_users' :
             uid \notin DOMAIN online_users \/ online_users'[uid] # online_users[uid]
             => \E s \in Sockets :
                   /\ sess[s].pc = "init"
                   /\ sess'[s].pc = "active"
                   /\ UserRows[sess'[s].user].id = uid
       /\ \A uid \in DOMAIN online_users \ DOMAIN online_users' :
             \E s \in Sockets :
                /\ sess[s].pc = "active"
                /\ sess'[s].pc = "closed"
                /\ UserId(s) = uid
       /\ sess' = sess => online_users' = online_users]_vars

\* a read was answered while a user was present, after a session was closed
\* and a conversation was created by a request
C32_Witness ==
    /\ out.resp # << >>
    /\ online_users # << >>
    /\ store.conv_rows # ConvRows
    /\ \E s \in Sockets : sess[s].pc = "closed"
====
